---------------------------- MODULE Spec2Model ----------------------------
(***************************************************************************)
(* Mergington High School activities API (src/src/app.py).                 *)
(*                                                                         *)
(* The program state is the module-level dictionary `activities`.  Two     *)
(* route handlers act on it: get_activities (read-only) and                *)
(* signup_for_activity (check existence, check duplicate, check capacity,  *)
(* append).                                                                *)
(*                                                                         *)
(* Two specifications are given.                                           *)
(*   Spec      requests are served one at a time: each handler runs to     *)
(*             completion as one step; `call` and `response` hold the last *)
(*             request and what was answered.                              *)
(*   SpecConc  the handlers are plain `def` routes, which the framework    *)
(*             runs on worker threads; every statement of                  *)
(*             signup_for_activity that reads or writes the shared         *)
(*             dictionary is a separate step of the thread executing it.   *)
(***************************************************************************)
EXTENDS Naturals, Sequences, FiniteSets, TLC

VARIABLES
    activities,   \* the module-level dict: activity name -> activity record
    call,         \* Spec: the request served last
    response,     \* Spec: the response to `call`
    pc,           \* SpecConc: per worker thread, the line it is about to run
    frame,        \* SpecConc: per worker thread, the handler's arguments
    result        \* SpecConc: per worker thread, the response of its handler

vars == <<activities, call, response, pc, frame, result>>

---------------------------------------------------------------------------
(* Bounds of the model.                                                    *)

\* Students of the roll, beyond the seeded ones, that may send requests.
\* Chess Club has 12 places and 2 seeded participants, so 10 students fill
\* it and the 11th is the first one to be refused for capacity.
MaxStudents == 11

\* The worker threads that may run signup_for_activity at the same time.
Threads == {"t1", "t2"}

---------------------------------------------------------------------------
(* The seed registry, lines 52-109.                                        *)

Activity(description, schedule, max_participants, participants) ==
    [description      |-> description,
     schedule         |-> schedule,
     max_participants |-> max_participants,
     participants     |-> participants]

SeedActivities ==
    ("Chess Club" :> Activity(
        "Learn strategies and compete in chess tournaments",
        "Fridays, 3:30 PM - 5:00 PM",
        12, <<"michael@mergington.edu", "daniel@mergington.edu">>))
 @@ ("Programming Class" :> Activity(
        "Learn programming fundamentals and build software projects",
        "Tuesdays and Thursdays, 3:30 PM - 4:30 PM",
        20, <<"emma@mergington.edu", "sophia@mergington.edu">>))
 @@ ("Gym Class" :> Activity(
        "Physical education and sports activities",
        "Mondays, Wednesdays, Fridays, 2:00 PM - 3:00 PM",
        30, <<"john@mergington.edu", "olivia@mergington.edu">>))
 @@ ("Soccer Practice" :> Activity(
        "Team drills, conditioning, and scrimmages",
        "Tuesdays and Thursdays, 4:00 PM - 5:30 PM",
        22, <<>>))
 @@ ("Track & Field" :> Activity(
        "Sprint, distance, and field event training",
        "Mondays and Wednesdays, 3:30 PM - 5:00 PM",
        28, <<>>))
 @@ ("Drama Club" :> Activity(
        "Acting workshops and preparing stage performances",
        "Wednesdays, 3:30 PM - 5:00 PM",
        18, <<>>))
 @@ ("Art Studio" :> Activity(
        "Drawing, painting, and mixed-media projects",
        "Mondays, 3:30 PM - 5:00 PM",
        16, <<>>))
 @@ ("Debate Team" :> Activity(
        "Practice structured debates and public speaking",
        "Thursdays, 3:30 PM - 5:00 PM",
        14, <<>>))
 @@ ("Math Olympiad" :> Activity(
        "Problem-solving sessions and competition prep",
        "Tuesdays, 3:30 PM - 4:45 PM",
        20, <<>>))

---------------------------------------------------------------------------
(* Requests: the values of the parameters activity_name and email.         *)

\* The i-th student of the roll.  The first one is the student of the
\* documented Soccer Practice scenario.
Student(i) ==
    IF i = 1 THEN "ana@mergington.edu"
    ELSE "student" \o ToString(i) \o "@mergington.edu"

\* An email that is seeded in Chess Club and may be sent to any activity at
\* any time.
SeededEmail == "michael@mergington.edu"

\* Activity names carried by requests: a seeded activity with participants,
\* a seeded empty one, and a name that is not a key of the registry.
RequestNames == {"Chess Club", "Soccer Practice", "Robotics Club"}

\* The emails of a participant list.
Members(participants) == {participants[i] : i \in DOMAIN participants}

\* The emails already on the list of `name` (none for an unknown name).
Enrolled(name) ==
    IF name \in DOMAIN activities
    THEN Members(activities[name].participants) ELSE {}

\* Emails a request for `name` may carry.  The handler compares emails only
\* for equality, so which new student asks is immaterial: the students of
\* the roll ask for an activity in roll order (a student asks once the one
\* before is enrolled in it, or has a request for it pending), and any
\* student may ask again.  SeededEmail may ask for anything at any time,
\* and so may every student for a name that is not in the registry.
RequestEmails(name, pending) ==
    {SeededEmail} \cup
    {Student(i) : i \in {j \in 1..MaxStudents :
                           \/ j = 1
                           \/ name \notin DOMAIN activities
                           \/ Student(j - 1) \in Enrolled(name) \cup pending}}

---------------------------------------------------------------------------
(* Responses.                                                              *)

\* raise HTTPException(status_code=..., detail=...): the framework answers
\* with that status and the body {"detail": ...}.
HTTPException(status_code, detail) ==
    [status_code |-> status_code, body |-> [detail |-> detail]]

\* A returned value: status 200 with the value as the JSON body.
Ok(body) == [status_code |-> 200, body |-> body]

\* f"Signed up {email} for {activity_name}", line 151.
SignedUpMessage(activity_name, email) ==
    [message |-> "Signed up " \o email \o " for " \o activity_name]

---------------------------------------------------------------------------
(* The statements of signup_for_activity, lines 133-151.                   *)

\* line 134: activity_name not in activities
ActivityNotFound(acts, activity_name) == activity_name \notin DOMAIN acts

\* Variant: the email is compared with the last participant only.
AlreadySignedUpLastOnly(acts, activity_name, email) ==
    /\ acts[activity_name].participants # <<>>
    /\ acts[activity_name].participants[Len(acts[activity_name].participants)]
         = email

\* Variant: the email is looked up in every activity's list.
AlreadySignedUpAnywhere(acts, activity_name, email) ==
    \E a \in DOMAIN acts : \E i \in DOMAIN acts[a].participants :
        acts[a].participants[i] = email

\* line 141: email in activity["participants"]
AlreadySignedUp(acts, activity_name, email) ==
    \E i \in DOMAIN acts[activity_name].participants :
        acts[activity_name].participants[i] = email

\* Variant: > in place of >=.
ActivityFullOffByOne(acts, activity_name) ==
    Len(acts[activity_name].participants) > acts[activity_name].max_participants

\* line 145: len(activity["participants"]) >= activity["max_participants"]
ActivityFull(acts, activity_name) ==
    Len(acts[activity_name].participants) >= acts[activity_name].max_participants

\* Variant: insert(0, email) in place of append(email).
AppendParticipantAtFront(acts, activity_name, email) ==
    [acts EXCEPT ![activity_name].participants = <<email>> \o @]

\* Variant: the list is assigned [email] in place of being appended to.
AppendParticipantReplaces(acts, activity_name, email) ==
    [acts EXCEPT ![activity_name].participants = <<email>>]

\* line 149: activity["participants"].append(email)
AppendParticipant(acts, activity_name, email) ==
    [acts EXCEPT ![activity_name].participants = Append(@, email)]

\* Variant: an unknown activity is created on first signup.
SignupOutcomeCreates(acts, activity_name, email) ==
    IF ActivityNotFound(acts, activity_name)
    THEN [response   |-> HTTPException(404, "Activity not found"),
          activities |-> (activity_name :> Activity("", "", 0, <<>>)) @@ acts]
    ELSE IF AlreadySignedUp(acts, activity_name, email)
    THEN [response   |-> HTTPException(400, "Student is already signed up"),
          activities |-> acts]
    ELSE IF ActivityFull(acts, activity_name)
    THEN [response   |-> HTTPException(400, "Activity is full"),
          activities |-> acts]
    ELSE [response   |-> Ok(SignedUpMessage(activity_name, email)),
          activities |-> AppendParticipant(acts, activity_name, email)]

\* Variant: the capacity check (step 4) placed before the duplicate check
\* (step 3).
SignupOutcomeCapacityFirst(acts, activity_name, email) ==
    IF ActivityNotFound(acts, activity_name)
    THEN [response   |-> HTTPException(404, "Activity not found"),
          activities |-> acts]
    ELSE IF ActivityFull(acts, activity_name)
    THEN [response   |-> HTTPException(400, "Activity is full"),
          activities |-> acts]
    ELSE IF AlreadySignedUp(acts, activity_name, email)
    THEN [response   |-> HTTPException(400, "Student is already signed up"),
          activities |-> acts]
    ELSE [response   |-> Ok(SignedUpMessage(activity_name, email)),
          activities |-> AppendParticipant(acts, activity_name, email)]

\* Variant: the capacity check (step 4) left out.
SignupOutcomeNoCapacityCheck(acts, activity_name, email) ==
    IF ActivityNotFound(acts, activity_name)
    THEN [response   |-> HTTPException(404, "Activity not found"),
          activities |-> acts]
    ELSE IF AlreadySignedUp(acts, activity_name, email)
    THEN [response   |-> HTTPException(400, "Student is already signed up"),
          activities |-> acts]
    ELSE [response   |-> Ok(SignedUpMessage(activity_name, email)),
          activities |-> AppendParticipant(acts, activity_name, email)]

\* The whole handler run without interruption: the response and the
\* registry it leaves.
SignupOutcome(acts, activity_name, email) ==
    IF ActivityNotFound(acts, activity_name)
    THEN [response   |-> HTTPException(404, "Activity not found"),
          activities |-> acts]
    ELSE IF AlreadySignedUp(acts, activity_name, email)
    THEN [response   |-> HTTPException(400, "Student is already signed up"),
          activities |-> acts]
    ELSE IF ActivityFull(acts, activity_name)
    THEN [response   |-> HTTPException(400, "Activity is full"),
          activities |-> acts]
    ELSE [response   |-> Ok(SignedUpMessage(activity_name, email)),
          activities |-> AppendParticipant(acts, activity_name, email)]

---------------------------------------------------------------------------
(* Spec: requests served one at a time.                                    *)

NoCall == [op |-> "none", activity_name |-> "", email |-> ""]
NoResponse == [status_code |-> 0, body |-> [detail |-> ""]]

Init ==
    /\ activities = SeedActivities
    /\ call = NoCall
    /\ response = NoResponse
    /\ pc = [t \in Threads |-> "idle"]
    /\ frame = [t \in Threads |-> [activity_name |-> "", email |-> ""]]
    /\ result = [t \in Threads |-> NoResponse]

\* GET /activities, lines 120-123.
get_activities ==
    /\ call' = [op |-> "get_activities", activity_name |-> "", email |-> ""]
    /\ response' = Ok(activities)
    /\ UNCHANGED <<activities, pc, frame, result>>

\* POST /activities/{activity_name}/signup?email=..., lines 129-151.
signup_for_activity(activity_name, email) ==
    /\ call' = [op |-> "signup_for_activity",
                activity_name |-> activity_name, email |-> email]
    /\ response' = SignupOutcome(activities, activity_name, email).response
    /\ activities' = SignupOutcome(activities, activity_name, email).activities
    /\ UNCHANGED <<pc, frame, result>>

Next ==
    \/ get_activities
    \/ \E activity_name \in RequestNames :
         \E email \in RequestEmails(activity_name, {}) :
            signup_for_activity(activity_name, email)

Spec == Init /\ [][Next]_vars

---------------------------------------------------------------------------
(* SpecConc: signup_for_activity on worker threads.  pc[t] is the line     *)
(* thread t runs next; a thread may be preempted between any two of the    *)
(* lines that touch `activities`.  Nothing in the handler takes a lock.    *)
(* A behaviour starts from the seed with requests served alone (while no   *)
(* thread is in the handler, a request runs through it uninterrupted),     *)
(* then each worker thread serves one request, interleaved with the        *)
(* others line by line.                                                    *)

\* Names carried by concurrent requests.
ConcRequestNames == {"Chess Club", "Robotics Club"}

\* Emails of the requests other threads are serving for `name`.
Pending(t, name) ==
    {frame[u].email : u \in {v \in Threads \ {t} :
                                /\ pc[v] \notin {"idle", "done"}
                                /\ frame[v].activity_name = name}}

\* A request served while every worker thread is still idle: the handler
\* runs from line 134 to its return or raise with nothing in between.
ServeAlone(activity_name, email) ==
    /\ \A t \in Threads : pc[t] = "idle"
    /\ activities' = SignupOutcome(activities, activity_name, email).activities
    /\ UNCHANGED <<call, response, pc, frame, result>>

\* The framework hands a request to an idle worker thread, line 130.
Receive(t, activity_name, email) ==
    /\ pc[t] = "idle"
    /\ pc' = [pc EXCEPT ![t] = "L134"]
    /\ frame' = [frame EXCEPT ![t] =
                    [activity_name |-> activity_name, email |-> email]]
    /\ result' = [result EXCEPT ![t] = NoResponse]
    /\ UNCHANGED <<activities, call, response>>

\* lines 134-138: the existence check; `activity` is bound to the entry.
CheckExists(t) ==
    /\ pc[t] = "L134"
    /\ IF ActivityNotFound(activities, frame[t].activity_name)
       THEN /\ result' = [result EXCEPT ![t] =
                            HTTPException(404, "Activity not found")]
            /\ pc' = [pc EXCEPT ![t] = "done"]
       ELSE /\ pc' = [pc EXCEPT ![t] = "L141"]
            /\ UNCHANGED result
    /\ UNCHANGED <<activities, frame, call, response>>

\* lines 141-142: the duplicate check.
CheckDuplicate(t) ==
    /\ pc[t] = "L141"
    /\ IF AlreadySignedUp(activities, frame[t].activity_name, frame[t].email)
       THEN /\ result' = [result EXCEPT ![t] =
                            HTTPException(400, "Student is already signed up")]
            /\ pc' = [pc EXCEPT ![t] = "done"]
       ELSE /\ pc' = [pc EXCEPT ![t] = "L145"]
            /\ UNCHANGED result
    /\ UNCHANGED <<activities, frame, call, response>>

\* lines 145-146: the capacity check.
CheckCapacity(t) ==
    /\ pc[t] = "L145"
    /\ IF ActivityFull(activities, frame[t].activity_name)
       THEN /\ result' = [result EXCEPT ![t] =
                            HTTPException(400, "Activity is full")]
            /\ pc' = [pc EXCEPT ![t] = "done"]
       ELSE /\ pc' = [pc EXCEPT ![t] = "L149"]
            /\ UNCHANGED result
    /\ UNCHANGED <<activities, frame, call, response>>

\* Variant: the append is skipped when the list has filled up meanwhile.
AppendAndReturnIfRoom(t) ==
    /\ pc[t] = "L149"
    /\ IF ActivityFull(activities, frame[t].activity_name)
       THEN /\ result' = [result EXCEPT ![t] =
                            HTTPException(400, "Activity is full")]
            /\ UNCHANGED activities
       ELSE /\ activities' = AppendParticipant(
                                activities, frame[t].activity_name, frame[t].email)
            /\ result' = [result EXCEPT ![t] =
                   Ok(SignedUpMessage(frame[t].activity_name, frame[t].email))]
    /\ pc' = [pc EXCEPT ![t] = "done"]
    /\ UNCHANGED <<frame, call, response>>

\* Variant: the append is skipped when the email is on the list meanwhile.
AppendAndReturnIfAbsent(t) ==
    /\ pc[t] = "L149"
    /\ IF AlreadySignedUp(activities, frame[t].activity_name, frame[t].email)
       THEN /\ result' = [result EXCEPT ![t] =
                            HTTPException(400, "Student is already signed up")]
            /\ UNCHANGED activities
       ELSE /\ activities' = AppendParticipant(
                                activities, frame[t].activity_name, frame[t].email)
            /\ result' = [result EXCEPT ![t] =
                   Ok(SignedUpMessage(frame[t].activity_name, frame[t].email))]
    /\ pc' = [pc EXCEPT ![t] = "done"]
    /\ UNCHANGED <<frame, call, response>>

\* lines 149-151: the append, then the success message.
AppendAndReturn(t) ==
    /\ pc[t] = "L149"
    /\ activities' = AppendParticipant(
                        activities, frame[t].activity_name, frame[t].email)
    /\ result' = [result EXCEPT ![t] =
           Ok(SignedUpMessage(frame[t].activity_name, frame[t].email))]
    /\ pc' = [pc EXCEPT ![t] = "done"]
    /\ UNCHANGED <<frame, call, response>>

NextConc ==
    \/ \E activity_name \in ConcRequestNames :
         \E email \in RequestEmails(activity_name, {}) :
            ServeAlone(activity_name, email)
    \/ \E t \in Threads :
        \/ \E activity_name \in ConcRequestNames :
             \E email \in RequestEmails(activity_name, Pending(t, activity_name)) :
                Receive(t, activity_name, email)
        \/ CheckExists(t)
        \/ CheckDuplicate(t)
        \/ CheckCapacity(t)
        \/ AppendAndReturn(t)

SpecConc == Init /\ [][NextConc]_vars

---------------------------------------------------------------------------
(* Properties of Spec (requests served one at a time).                     *)

IsPrefix(s, t) ==
    /\ Len(s) <= Len(t)
    /\ \A i \in 1..Len(s) : s[i] = t[i]

\* The step just taken served a signup request.
SignupServed == call'.op = "signup_for_activity"

\* C1: every activity has at most max_participants participants, in the
\* seed state and after any sequence of signups served one at a time.
CapacityInvariant ==
    \A a \in DOMAIN activities :
        Len(activities[a].participants) <= activities[a].max_participants

\* A signup has just succeeded and took the last place of its activity.
CapacityWitness ==
    /\ call.op = "signup_for_activity"
    /\ response.status_code = 200
    /\ Len(activities[call.activity_name].participants)
         = activities[call.activity_name].max_participants

\* C2: no email occurs twice in the participant list of one activity.
NoDuplicateInvariant ==
    \A a \in DOMAIN activities :
        \A i, j \in DOMAIN activities[a].participants :
            activities[a].participants[i] = activities[a].participants[j]
                => i = j

\* A student who signed up earlier (not a seeded one) asked again and was
\* refused; the list holds the email once.
NoDuplicateWitness ==
    /\ call.op = "signup_for_activity"
    /\ call.email = Student(1)
    /\ response = HTTPException(400, "Student is already signed up")
    /\ Cardinality({i \in DOMAIN activities[call.activity_name].participants :
            activities[call.activity_name].participants[i] = call.email}) = 1

\* C3: a signup for a name that is not a key of the registry is answered
\* 404 "Activity not found", whatever the email, and leaves the registry
\* unchanged.
UnknownActivityNotFound ==
    [][ (SignupServed /\ call'.activity_name \notin DOMAIN activities)
          => /\ response' = [status_code |-> 404,
                             body |-> [detail |-> "Activity not found"]]
             /\ activities' = activities ]_vars

\* The unseeded name of the documented scenario was asked for and refused.
UnknownActivityWitness ==
    /\ call.op = "signup_for_activity"
    /\ call.activity_name = "Robotics Club"
    /\ call.activity_name \notin DOMAIN activities
    /\ response.status_code = 404
    /\ activities # SeedActivities

\* C4: a signup for an existing activity with an email already on its list
\* is answered 400 "Student is already signed up" and leaves the list
\* unchanged, also when the activity is full.
DuplicateRejected ==
    [][ ( /\ SignupServed
          /\ call'.activity_name \in DOMAIN activities
          /\ call'.email
               \in Members(activities[call'.activity_name].participants) )
          => /\ response' = [status_code |-> 400,
                             body |-> [detail |-> "Student is already signed up"]]
             /\ activities' = activities ]_vars

\* A participant of a full activity asked again and got the duplicate
\* answer, not the capacity one.
DuplicateWhenFullWitness ==
    /\ call.op = "signup_for_activity"
    /\ call.activity_name \in DOMAIN activities
    /\ call.email \in Members(activities[call.activity_name].participants)
    /\ Len(activities[call.activity_name].participants)
         = activities[call.activity_name].max_participants
    /\ response.body = [detail |-> "Student is already signed up"]

\* C5: a signup for an existing activity whose list holds exactly
\* max_participants emails, with an email not on the list, is answered
\* 400 "Activity is full" and the list stays as it is.
FullRejected ==
    [][ ( /\ SignupServed
          /\ call'.activity_name \in DOMAIN activities
          /\ call'.email
               \notin Members(activities[call'.activity_name].participants)
          /\ Len(activities[call'.activity_name].participants)
               = activities[call'.activity_name].max_participants )
          => /\ response' = [status_code |-> 400,
                             body |-> [detail |-> "Activity is full"]]
             /\ activities'[call'.activity_name].participants
                  = activities[call'.activity_name].participants
             /\ Len(activities'[call'.activity_name].participants)
                  = activities'[call'.activity_name].max_participants ]_vars

\* Chess Club was filled by successful signups of the roll's students and
\* the next new student was refused for capacity.
FullWitness ==
    /\ call.op = "signup_for_activity"
    /\ call.activity_name = "Chess Club"
    /\ call.email \notin Members(activities["Chess Club"].participants)
    /\ response = HTTPException(400, "Activity is full")
    /\ Len(activities["Chess Club"].participants) = 12
    /\ \A i \in 1..10 :
          Student(i) \in Members(activities["Chess Club"].participants)

\* C6: a successful signup appends the email as the last element of the
\* named activity's list, answers "Signed up <email> for <activity_name>",
\* and changes nothing else in the registry.
SuccessAppends ==
    [][ (SignupServed /\ response'.status_code = 200)
          => /\ call'.activity_name \in DOMAIN activities
             /\ activities'[call'.activity_name].participants
                  = Append(activities[call'.activity_name].participants,
                           call'.email)
             /\ response'.body
                  = [message |-> "Signed up " \o call'.email \o " for "
                                   \o call'.activity_name]
             /\ DOMAIN activities' = DOMAIN activities
             /\ \A a \in DOMAIN activities :
                  /\ a # call'.activity_name
                       => activities'[a] = activities[a]
                  /\ activities'[a].description = activities[a].description
                  /\ activities'[a].schedule = activities[a].schedule
                  /\ activities'[a].max_participants
                       = activities[a].max_participants ]_vars

\* The documented scenario: the first signup for Soccer Practice.
SuccessWitness ==
    /\ call = [op |-> "signup_for_activity",
               activity_name |-> "Soccer Practice",
               email |-> "ana@mergington.edu"]
    /\ response = [status_code |-> 200,
                   body |-> [message |->
                     "Signed up ana@mergington.edu for Soccer Practice"]]
    /\ activities["Soccer Practice"].participants = <<"ana@mergington.edu">>

\* C7: the activity names and each max_participants stay those of the
\* seed, every step leaves each old participant list a prefix of the new
\* one, and get_activities leaves the registry as it is.
RegistryOnlyGrows ==
    [][ /\ DOMAIN activities' = DOMAIN SeedActivities
        /\ \A a \in DOMAIN SeedActivities :
             /\ activities'[a].max_participants
                  = SeedActivities[a].max_participants
             /\ IsPrefix(activities[a].participants,
                         activities'[a].participants)
        /\ call'.op = "get_activities" => activities' = activities ]_vars

\* get_activities was served after the registry had grown, and answered it.
RegistryGrownWitness ==
    /\ call.op = "get_activities"
    /\ response = Ok(activities)
    /\ Len(activities["Chess Club"].participants) > 3
    /\ Len(activities["Soccer Practice"].participants) > 1

\* C9: a signup served alone succeeds exactly when the name is a key, the
\* email is not on that activity's list and the list is shorter than
\* max_participants; being on another activity's list does not matter.
SuccessIff ==
    [][ SignupServed
          => ( response'.status_code = 200
               <=> /\ call'.activity_name \in DOMAIN activities
                   /\ call'.email \notin
                        Members(activities[call'.activity_name].participants)
                   /\ Len(activities[call'.activity_name].participants)
                        < activities[call'.activity_name].max_participants ) ]_vars

\* An email on the Chess Club list has just signed up for Soccer Practice.
SuccessIffWitness ==
    /\ call.op = "signup_for_activity"
    /\ call.activity_name = "Soccer Practice"
    /\ response.status_code = 200
    /\ call.email \in Members(activities["Chess Club"].participants)
    /\ call.email \in Members(activities["Soccer Practice"].participants)

---------------------------------------------------------------------------
(* Properties of SpecConc (requests served on worker threads).             *)

\* Thread t runs line 149 in the step just taken.
RunsAppend(t) == pc[t] = "L149" /\ pc'[t] = "done"

\* How many times the email occurs in the list.
Occurrences(participants, email) ==
    Cardinality({i \in DOMAIN participants : participants[i] = email})

\* C8: the checks and the append are separate steps under no lock: a
\* thread that passed the capacity check appends and answers 200 even when
\* another thread has filled the activity since, leaving more than
\* max_participants on the list.
LateAppendOverfills ==
    [][ \A t \in Threads :
          ( /\ RunsAppend(t)
            /\ Len(activities[frame[t].activity_name].participants)
                 >= activities[frame[t].activity_name].max_participants )
          => /\ activities'[frame[t].activity_name].participants
                  = Append(activities[frame[t].activity_name].participants,
                           frame[t].email)
             /\ result'[t].status_code = 200
             /\ Len(activities'[frame[t].activity_name].participants)
                  > activities'[frame[t].activity_name].max_participants ]_vars

\* Two threads with distinct new emails met on the last place of Chess
\* Club: both were answered 200, both emails are on the list, and the list
\* is one longer than max_participants.
OverfillWitness ==
    \E t, u \in Threads :
        /\ t # u
        /\ pc[t] = "done" /\ pc[u] = "done"
        /\ result[t].status_code = 200 /\ result[u].status_code = 200
        /\ frame[t].activity_name = "Chess Club"
        /\ frame[u].activity_name = "Chess Club"
        /\ frame[t].email # frame[u].email
        /\ activities["Chess Club"].max_participants = 12
        /\ Len(activities["Chess Club"].participants) = 13
        /\ activities["Chess Club"].participants[12] = frame[t].email
        /\ activities["Chess Club"].participants[13] = frame[u].email

\* C10: a thread that passed the duplicate check appends and answers 200
\* even when another thread has appended the same email since, leaving the
\* email on the list twice.
LateAppendDuplicates ==
    [][ \A t \in Threads :
          ( /\ RunsAppend(t)
            /\ frame[t].email \in
                 Members(activities[frame[t].activity_name].participants) )
          => /\ activities'[frame[t].activity_name].participants
                  = Append(activities[frame[t].activity_name].participants,
                           frame[t].email)
             /\ result'[t].status_code = 200
             /\ Occurrences(activities'[frame[t].activity_name].participants,
                            frame[t].email) >= 2 ]_vars

\* Two threads with the same new email for Chess Club, which had room for
\* both: both were answered 200 and the email is on the list twice.
DuplicateWitness ==
    \E t, u \in Threads :
        /\ t # u
        /\ pc[t] = "done" /\ pc[u] = "done"
        /\ result[t].status_code = 200 /\ result[u].status_code = 200
        /\ frame[t].activity_name = "Chess Club"
        /\ frame[u] = frame[t]
        /\ frame[t].email \notin Members(SeedActivities["Chess Club"].participants)
        /\ Occurrences(activities["Chess Club"].participants, frame[t].email) = 2
        /\ Len(activities["Chess Club"].participants)
             <= activities["Chess Club"].max_participants

=============================================================================
